---- MODULE Spec2Model ----
(***************************************************************************)
(* Secteur Analyzer (src/app.js): the analysis pipeline of startAnalysis,  *)
(* the transaction fallback of getDVFTransactions, the relayed fetches of  *)
(* getMeilleursAgentsData and getLInternauteData, the session currentData  *)
(* and the regions of the page the pipeline paints.                        *)
(*                                                                         *)
(* JavaScript runs each piece of code between two awaits to completion, so *)
(* one action is one such piece: the code from the resumption of an await  *)
(* (a response, a timeout, a timer) up to the next await or return.        *)
(***************************************************************************)
EXTENDS Integers, Sequences, FiniteSets, TLC

\* Bounds of the model.
MaxRuns == 2        \* analysis requests the user makes in one session
NumCommunes == 2    \* municipalities the geographic service knows

Runs == 1..MaxRuns
Codes == 1..NumCommunes

\* JavaScript values. Objects and JSON fields are records, so null and
\* undefined are records too; numbers are integers, and NaN is an integer
\* that no number of the model equals (the numbers of the model are >= 0).
Null == [null |-> TRUE]
Undefined == [undefined |-> TRUE]
NaN == -1

\* A field of a JSON record as the upstream sends it: a number, a text, a
\* label (the set of the recognised terms its lower-cased text contains), a
\* date (its calendar year), or Undefined when the field is absent.
Num(n) == [num |-> n]
Txt(s) == [txt |-> s]
Label(terms) == [terms |-> terms]
Date(y) == [year |-> y]
IsNum(v) == DOMAIN v = {"num"}
IsTxt(v) == DOMAIN v = {"txt"}
IsLabel(v) == DOMAIN v = {"terms"}
IsDate(v) == DOMAIN v = {"year"}

(***************************************************************************)
(* API_CONFIG                                                              *)
(***************************************************************************)
dvfApis ==
    << [name |-> "etalab", needsCors |-> FALSE, parser |-> "etalab"],
       [name |-> "cquest", needsCors |-> TRUE, parser |-> "cquest"],
       [name |-> "opendatasoft", needsCors |-> FALSE, parser |-> "opendatasoft"] >>

corsProxies == << "allorigins", "corsproxy", "codetabs" >>

\* What the geographic service returns for the municipality of code c; the
\* fields the pipeline reads. surface is in hectares.
Commune(c) ==
    [nom |-> c, code |-> c, population |-> 1000 * c, surface |-> 500 * (c - 1)]

\* API_CONFIG.meilleursAgents + slug + postal code, and linternaute.buildUrl:
\* the page address is a function of the municipality.
maUrlOf(commune) == [site |-> "meilleursagents", commune |-> commune.code]
liUrlOf(commune) == [site |-> "linternaute", commune |-> commune.code]

(***************************************************************************)
(* Numbers: parseFloat, parseInt, ||, Math.round                           *)
(***************************************************************************)
\* parseFloat / parseInt of a JSON field: a number parses to itself, anything
\* else (an absent field, a text without leading digits) to NaN.
parseFloat(v) == IF IsNum(v) THEN v.num ELSE NaN
parseInt(v) == IF IsNum(v) THEN v.num ELSE NaN

\* a || b on numbers: 0 and NaN are falsy.
NumOr(a, b) == IF a # 0 /\ a # NaN THEN a ELSE b

\* Math.round(num / den): the nearest integer, halves towards +infinity;
\* NaN when an operand is NaN and for 0 / 0.
\* A non-zero number over 0 is Infinity, which the model does not reach:
\* every division of the source is guarded by den > 0.
MathRoundDiv(num, den) ==
    IF num = NaN \/ den = NaN \/ den = 0 THEN NaN
    ELSE (2 * num + den) \div (2 * den)

\* t.field > 0 on a JSON field: false for an absent field and for a text.
RawGtZero(v) == IsNum(v) /\ v.num > 0

(***************************************************************************)
(* Transaction Normalizer                                                  *)
(***************************************************************************)
\* A label is the set of the words it contains, each as it is spelt.
\* The spellings of the words the rules look for:
Spellings ==
    [maison |-> {"maison", "Maison", "MAISON"},
     appartement |-> {"appartement", "Appartement", "APPARTEMENT"},
     terrain |-> {"terrain", "Terrain", "TERRAIN"},
     dependance |-> {"dependance", "Dependance", "DEPENDANCE"},
     local |-> {"local", "Local", "LOCAL"},
     commerce |-> {"commerce", "Commerce", "COMMERCE"}]

\* type.toLowerCase(): every word in lower case
toLowerCase(type) ==
    [terms |-> {IF \E k \in DOMAIN Spellings : w \in Spellings[k]
                THEN CHOOSE k \in DOMAIN Spellings : w \in Spellings[k]
                ELSE w : w \in type.terms}]

\* t.includes(word)
includes(t, word) == word \in t.terms

\* A normalizeType whose rules are tried in the reverse order
normalizeTypeLastRuleWins(type) ==
    IF ~IsLabel(type) THEN "Autre"
    ELSE LET t == toLowerCase(type)
         IN IF includes(t, "local") \/ includes(t, "commerce") THEN "Commerce"
            ELSE IF includes(t, "terrain") \/ includes(t, "dependance") THEN "Terrain"
            ELSE IF includes(t, "appartement") THEN "Appartement"
            ELSE IF includes(t, "maison") THEN "Maison"
            ELSE "Autre"

normalizeType(type) ==
    IF ~IsLabel(type) THEN "Autre"
    ELSE LET t == toLowerCase(type)
         IN IF includes(t, "maison") THEN "Maison"
            ELSE IF includes(t, "appartement") THEN "Appartement"
            ELSE IF includes(t, "terrain") \/ includes(t, "dependance") THEN "Terrain"
            ELSE IF includes(t, "local") \/ includes(t, "commerce") THEN "Commerce"
            ELSE "Autre"

\* t.adresse_nom_voie || 'Non renseignee' (an absent or empty text is falsy)
AdresseOr(v, other) == IF IsTxt(v) /\ v.txt # "" THEN v.txt ELSE other

normalizeTransactionEtalab(t) ==
    LET surface == NumOr(parseFloat(t.surface_reelle_bati),
                         NumOr(parseFloat(t.surface_terrain), 0))
        prix == NumOr(parseFloat(t.valeur_fonciere), 0)
    IN [date |-> t.date_mutation,
        type |-> normalizeType(t.type_local),
        adresse |-> AdresseOr(t.adresse_nom_voie, "Non renseignee"),
        surface |-> surface,
        prix |-> prix,
        prixM2 |-> IF surface > 0 THEN MathRoundDiv(prix, surface) ELSE 0,
        pieces |-> NumOr(parseInt(t.nombre_pieces_principales), 0),
        codePostal |-> t.code_postal,
        idMutation |-> t.id_mutation]

normalizeTransactionCquest(t) ==
    [date |-> t.date_mutation,
     type |-> normalizeType(t.type_local),
     adresse |-> AdresseOr(t.adresse_nom_voie,
                           AdresseOr(t.adresse, "Non renseignee")),
     surface |-> NumOr(parseFloat(t.surface_reelle_bati),
                       NumOr(parseFloat(t.surface_terrain), 0)),
     prix |-> NumOr(parseFloat(t.valeur_fonciere), 0),
     prixM2 |-> IF RawGtZero(t.surface_reelle_bati)
                THEN MathRoundDiv(parseFloat(t.valeur_fonciere),
                                  parseFloat(t.surface_reelle_bati))
                ELSE 0,
     pieces |-> NumOr(parseInt(t.nombre_pieces_principales), 0)]

normalizeTransactionODS(t) ==
    LET surface == NumOr(parseFloat(t.surface_reelle_bati),
                         NumOr(parseFloat(t.surface_terrain), 0))
        prix == NumOr(parseFloat(t.valeur_fonciere), 0)
    IN [date |-> t.date_mutation,
        type |-> normalizeType(t.type_local),
        adresse |-> AdresseOr(t.adresse_nom_voie, "Non renseignee"),
        surface |-> surface,
        prix |-> prix,
        prixM2 |-> IF surface > 0 THEN MathRoundDiv(prix, surface) ELSE 0,
        pieces |-> NumOr(parseInt(t.nombre_pieces_principales), 0)]

\* data.X.map(normalize...) by the adapter's parser
MapRecords(parser, records) ==
    [k \in 1..Len(records) |->
        IF parser = "etalab" THEN normalizeTransactionEtalab(records[k])
        ELSE IF parser = "cquest" THEN normalizeTransactionCquest(records[k])
        ELSE normalizeTransactionODS(records[k])]

(***************************************************************************)
(* Statistics Engine                                                       *)
(***************************************************************************)
\* arr.filter(keep) is SelectSeq(arr, keep)
\* reduce((a, b) => a + b, 0): NaN as soon as one term is NaN
\* A sum that leaves the first term out
SumSeqFromSecond(seq) ==
    LET sum[k \in 0..Len(seq)] ==
            IF k <= 1 THEN 0
            ELSE IF seq[k] = NaN \/ sum[k - 1] = NaN THEN NaN
            ELSE sum[k - 1] + seq[k]
    IN sum[Len(seq)]

SumSeq(seq) ==
    LET sum[k \in 0..Len(seq)] ==
            IF k = 0 THEN 0
            ELSE IF seq[k] = NaN \/ sum[k - 1] = NaN THEN NaN
            ELSE sum[k - 1] + seq[k]
    IN sum[Len(seq)]

SeqRange(seq) == {seq[k] : k \in 1..Len(seq)}
MathMin(seq) == CHOOSE m \in SeqRange(seq) : \A x \in SeqRange(seq) : m <= x
MathMax(seq) == CHOOSE m \in SeqRange(seq) : \A x \in SeqRange(seq) : m >= x

\* [...arr].sort((a, b) => a - b): the ascending arrangement of arr
\* (position i holds the value that fewer than i elements are below and at
\* least i elements are not above)
SortAsc(seq) ==
    [i \in 1..Len(seq) |->
        CHOOSE v \in SeqRange(seq) :
            /\ Cardinality({j \in 1..Len(seq) : seq[j] < v}) < i
            /\ Cardinality({j \in 1..Len(seq) : seq[j] <= v}) >= i]

\* A median that drops the half of the mean of the two middle elements
medianTruncated(arr) ==
    LET sorted == SortAsc(arr)
        mid == Len(sorted) \div 2
    IN IF Len(sorted) % 2 = 1 THEN sorted[mid + 1]
       ELSE (sorted[mid] + sorted[mid + 1]) \div 2

\* arr after median(arr): the sort rearranges sorted, the copy [...arr]; arr
\* keeps its elements in their order.
ArrayAfterMedian(arr) == arr

median(arr) ==
    LET sorted == SortAsc(arr)
        mid == Len(sorted) \div 2
    IN IF Len(sorted) % 2 = 1 THEN sorted[mid + 1]
       ELSE MathRoundDiv(sorted[mid] + sorted[mid + 1], 2)

\* new Date(t.date).getFullYear(): NaN for an absent or invalid date
YearOf(t) == IF IsDate(t.date) THEN t.date.year ELSE NaN

IsValidTransaction(t) == t.prix > 0 /\ t.surface > 0

SurfaceLabels ==
    << "Moins de 30m2", "30 a 60m2", "60 a 80m2", "80 a 100m2", "100 a 120m2",
       "Plus de 120m2" >>

\* A bucket chain whose bounds are inclusive
SurfaceBucketInclusive(s) ==
    IF s <= 30 THEN 1
    ELSE IF s <= 60 THEN 2
    ELSE IF s <= 80 THEN 3
    ELSE IF s <= 100 THEN 4
    ELSE IF s <= 120 THEN 5
    ELSE 6

\* the bucket of the if / else-if chain for a surface s
SurfaceBucket(s) ==
    IF s < 30 THEN 1
    ELSE IF s < 60 THEN 2
    ELSE IF s < 80 THEN 3
    ELSE IF s < 100 THEN 4
    ELSE IF s < 120 THEN 5
    ELSE 6

\* A distribution whose percentages are truncated, not rounded
calculateHousingDistributionTruncated(transactions) ==
    LET total == IF Len(transactions) = 0 THEN 1 ELSE Len(transactions)
        count(b) ==
            Cardinality({k \in 1..Len(transactions) :
                            SurfaceBucket(transactions[k].surface) = b})
    IN [b \in 1..6 |->
            [label |-> SurfaceLabels[b],
             count |-> count(b),
             percent |-> (count(b) * 100) \div total]]

\* A distribution that divides by the number of transactions, unguarded
calculateHousingDistributionUnguarded(transactions) ==
    LET count(b) ==
            Cardinality({k \in 1..Len(transactions) :
                            SurfaceBucket(transactions[k].surface) = b})
    IN [b \in 1..6 |->
            [label |-> SurfaceLabels[b],
             count |-> count(b),
             percent |-> MathRoundDiv(count(b) * 100, Len(transactions))]]

calculateHousingDistribution(transactions) ==
    LET total == IF Len(transactions) = 0 THEN 1 ELSE Len(transactions)
        count(b) ==
            Cardinality({k \in 1..Len(transactions) :
                            SurfaceBucket(transactions[k].surface) = b})
    IN [b \in 1..6 |->
            [label |-> SurfaceLabels[b],
             count |-> count(b),
             percent |-> MathRoundDiv(count(b) * 100, total)]]

calculateStats(transactions, commune) ==
    LET validTransactions == SelectSeq(transactions, IsValidTransaction)
        types == {validTransactions[k].type : k \in 1..Len(validTransactions)}
        byType(ty) == SelectSeq(validTransactions, LAMBDA t : t.type = ty)
        prices(ty) ==
            SelectSeq([k \in 1..Len(byType(ty)) |-> byType(ty)[k].prixM2],
                   LAMBDA p : p > 0)
        priceStats ==
            [ty \in {x \in types : Len(prices(x)) > 0} |->
                [count |-> Len(byType(ty)),
                 min |-> MathMin(prices(ty)),
                 max |-> MathMax(prices(ty)),
                 avg |-> MathRoundDiv(SumSeq(prices(ty)), Len(prices(ty))),
                 median |-> median(prices(ty))]]
        years == {YearOf(validTransactions[k]) : k \in 1..Len(validTransactions)}
        byYear(y) == SelectSeq(validTransactions, LAMBDA t : YearOf(t) = y)
        \* Object.entries lists the numeric years in ascending order and the
        \* "NaN" key after them; the sort leaves that order
        yearOrder ==
            [i \in 1..Cardinality(years \ {NaN}) |->
                CHOOSE y \in years \ {NaN} :
                    Cardinality({x \in years \ {NaN} : x < y}) = i - 1]
            \o (IF NaN \in years THEN << NaN >> ELSE << >>)
        yearlyStats ==
            [k \in 1..Len(yearOrder) |->
                LET trans == byYear(yearOrder[k])
                IN [year |-> yearOrder[k],
                    count |-> Len(trans),
                    avgPrice |->
                        MathRoundDiv(SumSeq([j \in 1..Len(trans) |-> trans[j].prixM2]),
                                     Len(trans))]]
    IN [totalTransactions |-> Len(transactions),
        validTransactions |-> Len(validTransactions),
        priceStats |-> priceStats,
        yearlyStats |-> yearlyStats,
        housingDist |-> calculateHousingDistribution(validTransactions),
        population |-> commune.population,
        surface |-> commune.surface,
        density |-> IF commune.surface > 0
                    THEN MathRoundDiv(commune.population * 100, commune.surface)
                    ELSE 0]

calculateEvolution(yearlyStats) ==
    IF Len(yearlyStats) < 2 THEN Null
    ELSE LET first == yearlyStats[1].avgPrice
             last == yearlyStats[Len(yearlyStats)].avgPrice
         IN IF first = 0 THEN Null
            ELSE [percent |-> MathRoundDiv((last - first) * 100, first)]

\* displayMainStats: the price evolution of the statistics grid (Null: no
\* evolution card). The other cards show figures of stats as they are.
displayMainStats(stats) ==
    [evolution |-> IF Len(stats.yearlyStats) >= 2
                   THEN calculateEvolution(stats.yearlyStats)
                   ELSE Null]

(***************************************************************************)
(* What the network can answer                                             *)
(***************************************************************************)
\* Raw transaction records of the upstream sources.
RawApartment2022 ==
    [date_mutation |-> Date(2022), type_local |-> Label({"appartement"}),
     adresse_nom_voie |-> Txt("RUE A"), adresse |-> Undefined,
     surface_reelle_bati |-> Num(50), surface_terrain |-> Undefined,
     valeur_fonciere |-> Num(500000), nombre_pieces_principales |-> Num(2),
     code_postal |-> Txt("75001"), id_mutation |-> Txt("m1")]

RawApartment2023 ==
    [date_mutation |-> Date(2023), type_local |-> Label({"appartement"}),
     adresse_nom_voie |-> Undefined, adresse |-> Txt("RUE B"),
     surface_reelle_bati |-> Num(30), surface_terrain |-> Undefined,
     valeur_fonciere |-> Num(300000), nombre_pieces_principales |-> Undefined,
     code_postal |-> Txt("75001"), id_mutation |-> Txt("m2")]

\* The record arrays a source may send under its envelope key.
RecordArrays == { << >>, << RawApartment2022, RawApartment2023 >> }

\* The body of a successful response of a transaction source: text that is
\* not JSON, or an object with one key whose value is an array of records or
\* something else.
DvfBodies ==
    { [valid |-> FALSE, key |-> "", isArray |-> FALSE, records |-> << >>] }
    \cup { [valid |-> TRUE, key |-> k, isArray |-> FALSE, records |-> << >>] :
              k \in {"mutations", "resultats", "results"} }
    \cup { [valid |-> TRUE, key |-> k, isArray |-> TRUE, records |-> a] :
              k \in {"mutations", "resultats", "results"}, a \in RecordArrays }

NoBody == [valid |-> FALSE, key |-> "", isArray |-> FALSE, records |-> << >>]

\* The outcome of one fetch of a transaction source: the fetch rejects (a
\* transport error), it is aborted by its timeout signal, it resolves with a
\* non-success status, or with a success status and a body.
DvfOutcomes ==
    { [kind |-> k, body |-> NoBody] : k \in {"throw", "nonok"} }
    \cup { [kind |-> "ok", body |-> b] : b \in DvfBodies }

DvfTimedOut == [kind |-> "timeout", body |-> NoBody]

\* The key of the envelope each parser reads.
EnvelopeKey(parser) ==
    IF parser = "etalab" THEN "mutations"
    ELSE IF parser = "cquest" THEN "resultats"
    ELSE "results"

\* How the fetch of one attempt ended, by the branch of getDVFTransactions
\* that handles it.
OutcomeKind(parser, o) ==
    IF o.kind # "ok" THEN o.kind
    ELSE IF ~o.body.valid THEN "badjson"
    ELSE IF o.body.key # EnvelopeKey(parser) \/ ~o.body.isArray THEN "noarray"
    ELSE IF Len(o.body.records) = 0 THEN "empty"
    ELSE "data"

(***************************************************************************)
(* Text-Pattern Extractor                                                  *)
(***************************************************************************)
\* A fetched page is what its text makes the pattern chains find: for each
\* fact the capture of the first pattern that matches, Null when none does.
\* A price capture is digits in groups separated by white space ("4 500"),
\* written as the sequence of its three-digit groups; it begins with a digit,
\* so parsePrice gives a number.
Digits(groups) == [groups |-> groups]

NoMatches ==
    [apptMatch |-> Null, maisonMatch |-> Null, apptRangeMatch |-> Null,
     maisonRangeMatch |-> Null, loyerApptMatch |-> Null, loyerMaisonMatch |-> Null]

\* "appartements ... 4500 EUR ... m2" and no other phrase
PageApartmentPrice == [NoMatches EXCEPT !.apptMatch = Digits(<< 4, 500 >>)]

\* only a rent phrase
PageRentOnly == [NoMatches EXCEPT !.loyerApptMatch = Num(15)]

MaPages == {NoMatches, PageApartmentPrice, PageRentOnly}

\* parseInt(str.replace(/\s/g, ''), 10)
RECURSIVE JoinGroups(_)
JoinGroups(groups) ==
    IF groups = << >> THEN 0
    ELSE JoinGroups(SubSeq(groups, 1, Len(groups) - 1)) * 1000 + groups[Len(groups)]

parsePrice(str) == IF str = Null THEN Null ELSE Num(JoinGroups(str.groups))

parseMeilleursAgentsHTML(page) ==
    [appartement |->
        IF page.apptMatch # Null
        THEN [prix |-> parsePrice(page.apptMatch),
              min |-> IF page.apptRangeMatch # Null
                      THEN parsePrice(page.apptRangeMatch.min) ELSE Null,
              max |-> IF page.apptRangeMatch # Null
                      THEN parsePrice(page.apptRangeMatch.max) ELSE Null]
        ELSE Null,
     maison |->
        IF page.maisonMatch # Null
        THEN [prix |-> parsePrice(page.maisonMatch),
              min |-> IF page.maisonRangeMatch # Null
                      THEN parsePrice(page.maisonRangeMatch.min) ELSE Null,
              max |-> IF page.maisonRangeMatch # Null
                      THEN parsePrice(page.maisonRangeMatch.max) ELSE Null]
        ELSE Null,
     loyer |->
        IF page.loyerApptMatch # Null \/ page.loyerMaisonMatch # Null
        THEN [appartement |-> page.loyerApptMatch, maison |-> page.loyerMaisonMatch]
        ELSE Null,
     evolution |-> Null,
     url |-> Null]

\* A page of the demographic site: whether its text passes the content check
\* of getLInternauteData, the dwellings count and the house / apartment
\* shares its text yields, and what each of the ten room-count patterns
\* captures in its text, in the order of piecePatterns (Null: no match).
NoPieceMatches == [i \in 1..10 |-> Null]

LiPageNoFacts ==
    [content |-> TRUE, nbLogMatch |-> Null, maisonsMatch |-> Null,
     apptsMatch |-> Null, pieceMatches |-> NoPieceMatches]

\* every bucket in the phrasing of its first pattern
LiPageRooms ==
    [content |-> TRUE, nbLogMatch |-> Num(1200), maisonsMatch |-> Num(40),
     apptsMatch |-> Num(60),
     pieceMatches |-> << Num(10), Null, Num(20), Null, Num(30), Null,
                         Num(25), Null, Num(15), Null >>]

LiPageForeign == [LiPageNoFacts EXCEPT !.content = FALSE]

LiPages == {LiPageNoFacts, LiPageRooms, LiPageForeign}

\* piecePatterns: two patterns for each of the five buckets, in list order;
\* the key of pattern i.
piecePatterns == [i \in 1..10 |-> [key |-> (i + 1) \div 2]]

\* piecePatterns.forEach(...): a pattern that matches writes its bucket if
\* !data.repartitionPieces[key], that is if the bucket is absent or holds 0.
\* The result maps the buckets written (1: "1 piece", ... 5: "5+ pieces") to
\* their value.
RepartitionPieces(matches) ==
    [k \in {piecePatterns[i].key : i \in {j \in 1..10 : matches[j] # Null}} |->
        LET first == matches[2 * k - 1]
            second == matches[2 * k]
        IN IF first = Null THEN parseFloat(second)
           ELSE IF second # Null /\ parseFloat(first) = 0 THEN parseFloat(second)
           ELSE parseFloat(first)]

\* Object.entries(data.repartitionPieces): the values in the order the
\* buckets were written, which is that of piecePatterns
PieceEntries(pieces) ==
    [i \in 1..Cardinality(DOMAIN pieces) |->
        pieces[CHOOSE k \in DOMAIN pieces :
                  Cardinality({x \in DOMAIN pieces : x < k}) = i - 1]]

\* repartitionPieces starts as {} and gets the buckets whose pattern matched
parseLInternauteHTML(page) ==
    [nbLogements |-> page.nbLogMatch,
     typesLogements |->
        IF page.maisonsMatch # Null \/ page.apptsMatch # Null
        THEN [maisons |-> page.maisonsMatch, appartements |-> page.apptsMatch]
        ELSE Null,
     repartitionPieces |-> [pieces |-> RepartitionPieces(page.pieceMatches)],
     url |-> Null]

\* Truthiness of the fields getLInternauteData tests: a number other than 0,
\* any object (the empty object {} included); null is falsy.
TruthyFact(v) == v # Null /\ v # Num(0)

\* The outcome of one fetch of a page through a relay.
MaOutcomes ==
    { [kind |-> k, page |-> NoMatches] : k \in {"throw", "nonok"} }
    \cup { [kind |-> "ok", page |-> pg] : pg \in MaPages }

LiOutcomes ==
    { [kind |-> k, page |-> LiPageNoFacts] : k \in {"throw", "nonok"} }
    \cup { [kind |-> "ok", page |-> pg] : pg \in LiPages }

LiTimedOut == [kind |-> "timeout", page |-> LiPageNoFacts]
MaTimedOut == [kind |-> "timeout", page |-> NoMatches]

(***************************************************************************)
(* State                                                                   *)
(***************************************************************************)
VARIABLES
    currentData,  \* the session: commune, dvfTransactions, stats, meilleursAgents, linternaute
    run,          \* per request: where startAnalysis / getDVFTransactions stands, and its locals
    ma,           \* per request: where getMeilleursAgentsData stands
    li,           \* per request: where getLInternauteData stands
    net,          \* the fetches in flight
    dom,          \* the regions of the page the pipeline paints
    hist,         \* per request: the history of its retrievals in progress (read by no action)
    call          \* a call of one function on its own: its name, argument and result

vars == << currentData, run, ma, li, net, dom, hist, call >>

Categories == {"dvf", "ma", "li"}

\* A fetch in flight: the request it belongs to, its category ("geo" for the
\* geographic lookup), the adapter and relay it goes to (0: none) and whether
\* it carries an abort signal (AbortSignal.timeout).
Fetch(r, cat, api, proxy, signal) ==
    [run |-> r, cat |-> cat, api |-> api, proxy |-> proxy, signal |-> signal]

InFlight(r, cat) == {q \in net : q.run = r /\ q.cat = cat}

NoStats == [empty |-> TRUE]

\* A local that the code no longer reads holds its initial value again.
IdleRun ==
    [pc |-> "idle", byCode |-> FALSE, target |-> 0, commune |-> Null,
     api |-> 0, proxy |-> 0, response |-> "undefined", transactions |-> << >>,
     failed |-> FALSE]

IdleFetch == [state |-> "idle", proxy |-> 0, data |-> Null]

\* invoked: the adapters getDVFTransactions has sent a fetch to; settled: the
\* adapters whose outcome it knows; last: the attempt that ended last and how;
\* yielded: the adapter whose response held at least one record, and the
\* records; relays: per category the relays contacted, in order; prevOk: per
\* category, whether the fetch that ended last returned a successful response;
\* overlaps: whether an earlier request was still unsettled when this one began;
\* facts: per optional category, whether a page read so far (a successful
\* response, of the right site for the demographic fetch) yielded a fact.
NoHistory ==
    [invoked |-> {}, settled |-> {}, yielded |-> Null, last |-> Null,
     relays |-> [c \in Categories |-> << >>],
     prevOk |-> [c \in Categories |-> FALSE],
     overlaps |-> FALSE,
     facts |-> [c \in {"ma", "li"} |-> FALSE]]

\* The parsed price estimate holds a fact: a price for apartments, a price
\* for houses or a rent.
MaYieldsFact(data) ==
    data.appartement # Null \/ data.maison # Null \/ data.loyer # Null

\* The parsed demographic profile holds a fact: a dwellings count, a share of
\* houses or apartments, or a room-count bucket.
LiYieldsFact(data) ==
    \/ data.nbLogements # Null
    \/ data.typesLogements # Null
    \/ DOMAIN data.repartitionPieces.pieces # {}

\* Request r is over: startAnalysis has run to its end and neither optional
\* fetch is pending.
Settled(r) ==
    run[r].pc = "done" /\ ma[r].state # "trying" /\ li[r].state # "trying"

NoCall == [fn |-> "none"]

\* The page as loaded: no request made yet.
PageLoaded ==
    /\ currentData = [commune |-> Null, dvfTransactions |-> << >>, stats |-> NoStats,
                      meilleursAgents |-> Null, linternaute |-> Null]
    /\ run = [r \in Runs |-> IdleRun]
    /\ ma = [r \in Runs |-> IdleFetch]
    /\ li = [r \in Runs |-> IdleFetch]
    /\ net = {}
    /\ dom = [error |-> [active |-> FALSE, text |-> ""],
              loading |-> FALSE,
              maLoading |-> TRUE,
              maContent |-> [kind |-> "empty"],
              results |-> Null,
              housing |-> [src |-> "none", bars |-> << >>],
              demoLinks |-> 0,
              inseeBlocks |-> 0]
    /\ hist = [r \in Runs |-> NoHistory]

Init == PageLoaded /\ call = NoCall

(***************************************************************************)
(* The page                                                                *)
(***************************************************************************)
\* A showError that fills the message and leaves the banner hidden
showErrorHidden(d, message) == [d EXCEPT !.error.text = message]

showError(d, message) == [d EXCEPT !.error = [active |-> TRUE, text |-> message]]
hideError(d) == [d EXCEPT !.error.active = FALSE]
showLoading(d) == [d EXCEPT !.loading = TRUE]
hideLoading(d) == [d EXCEPT !.loading = FALSE]

\* the bars of displayHousingBars: the percents when one is > 0, else the
\* "no data" notice
HousingBars(percents) ==
    IF \E k \in 1..Len(percents) : percents[k] > 0 THEN percents ELSE << >>

\* displayResults paints the session as it is when the display pass runs
displayResults(d, cd) ==
    [d EXCEPT
        !.maLoading = TRUE,
        !.maContent = [kind |-> "empty"],
        !.results = [commune |-> cd.commune, stats |-> cd.stats,
                     transactions |-> cd.dvfTransactions],
        !.demoLinks = 0,
        !.housing = [src |-> "dvf",
                     bars |-> HousingBars([b \in 1..6 |->
                                             cd.stats.housingDist[b].percent])]]

displayMeilleursAgentsError(d, commune) ==
    [d EXCEPT !.maContent = [kind |-> "unavailable", url |-> maUrlOf(commune)],
              !.maLoading = FALSE]

displayMeilleursAgents(d, data, commune) ==
    IF data = Null \/ (data.appartement = Null /\ data.maison = Null)
    THEN displayMeilleursAgentsError(d, commune)
    ELSE [d EXCEPT !.maContent = [kind |-> "prices", data |-> data],
                   !.maLoading = FALSE]

displayLInternauteData(d, data) ==
    [d EXCEPT
        !.housing = IF data.repartitionPieces # Null
                       /\ DOMAIN data.repartitionPieces.pieces # {}
                    THEN [src |-> "insee",
                          bars |-> HousingBars(PieceEntries(data.repartitionPieces.pieces))]
                    ELSE @,
        !.inseeBlocks = @ + 1]

displayLInternauteError(d, commune) == [d EXCEPT !.demoLinks = @ + 1]

(***************************************************************************)
(* startAnalysis, up to the transactions                                   *)
(***************************************************************************)
\* The user asks for an analysis: Enter in the text field or the search
\* button (codeInsee = 0: none), or a click on a suggestion, which fills the
\* field with the municipality's name and passes its code. query = 0 is the
\* field left empty. The search button is disabled while a request is in
\* flight; the Enter key and the suggestions are not.
\* What the search field can hold: nothing or the name of a municipality
\* (named by its number; 0: nothing), with or without white space around it.
CityInputs == {[blanks |-> b, name |-> q] : b \in BOOLEAN, q \in {0} \cup Codes}

\* elements.cityInput.value.trim(): the text without the white space around
\* it; white space alone leaves the empty text.
trim(value) == value.name

\* A startAnalysis without the test of the empty input
StartAnalysisUnguarded(r, query, codeInsee) ==
    /\ run[r].pc = "idle"
    /\ IF r = 1 THEN TRUE ELSE run[r - 1].pc # "idle"
    /\ codeInsee # 0 => query = codeInsee
    /\ dom' = showLoading(hideError(dom))
    /\ run' = [run EXCEPT ![r] = [IdleRun EXCEPT !.pc = "geo",
                                                !.byCode = (codeInsee # 0),
                                                !.target = query]]
    /\ net' = net \cup {Fetch(r, "geo", 0, 0, FALSE)}
    /\ hist' = [hist EXCEPT ![r].overlaps = \E e \in 1..(r - 1) : ~Settled(e)]
    /\ UNCHANGED << currentData, ma, li, call >>

StartAnalysis(r, query, codeInsee) ==
    /\ run[r].pc = "idle"
    /\ IF r = 1 THEN TRUE ELSE run[r - 1].pc # "idle"
    /\ codeInsee # 0 => query = codeInsee
    /\ IF query = 0 /\ codeInsee = 0
       THEN /\ dom' = showError(dom, "Veuillez entrer le nom d'une commune")
            /\ UNCHANGED << currentData, run, ma, li, net, hist, call >>
       ELSE /\ dom' = showLoading(hideError(dom))
            /\ run' = [run EXCEPT ![r] = [IdleRun EXCEPT !.pc = "geo",
                                                        !.byCode = (codeInsee # 0),
                                                        !.target = query]]
            /\ net' = net \cup {Fetch(r, "geo", 0, 0, FALSE)}
            /\ hist' = [hist EXCEPT ![r].overlaps = \E e \in 1..(r - 1) : ~Settled(e)]
            /\ UNCHANGED << currentData, ma, li, call >>

\* The relay the loop over corsProxies starts with for adapter api (0: the
\* adapter is fetched directly).
FirstProxy(api) == IF dvfApis[api].needsCors THEN 1 ELSE 0

\* A getDVFTransactions that races the adapter with those after it
DvfFetchesRaced(r, api, proxy) ==
    {Fetch(r, "dvf", a, IF a = api THEN proxy ELSE FirstProxy(a), TRUE) :
        a \in api..Len(dvfApis)}

\* The fetches getDVFTransactions has in flight once it has sent the one of
\* iteration api through relay proxy. Each carries AbortSignal.timeout(15000).
DvfFetches(r, api, proxy) == {Fetch(r, "dvf", api, proxy, TRUE)}

GeoOutcomes == {"throw", "nonok", "empty", "found"}

GeoErrorMessage(byCode, outcome) ==
    IF outcome = "throw" THEN "Failed to fetch"
    ELSE IF outcome = "nonok"
    THEN (IF byCode THEN "Commune non trouvee" ELSE "Erreur recherche")
    ELSE "Commune non trouvee"

\* The geographic service answers (getCommuneByCode / getCommuneByName) and
\* startAnalysis runs on to its next await: the first fetch of
\* getDVFTransactions, or the catch and finally blocks.
GeoResponse(r, outcome) ==
    /\ run[r].pc = "geo"
    /\ outcome = "empty" => ~run[r].byCode
    /\ IF outcome = "found"
       THEN LET commune == Commune(run[r].target)
            IN /\ currentData' = [currentData EXCEPT !.commune = commune]
               /\ run' = [run EXCEPT ![r] =
                             [IdleRun EXCEPT !.pc = "dvf", !.commune = commune,
                                             !.api = 1, !.proxy = FirstProxy(1)]]
               /\ hist' = [hist EXCEPT ![r] =
                              [NoHistory EXCEPT
                                  !.overlaps = hist[r].overlaps,
                                  !.invoked = {1},
                                  !.relays["dvf"] =
                                      IF FirstProxy(1) = 0 THEN << >> ELSE << 1 >>]]
               /\ net' = (net \ InFlight(r, "geo")) \cup DvfFetches(r, 1, FirstProxy(1))
               /\ dom' = dom
       ELSE /\ run' = [run EXCEPT ![r] = [IdleRun EXCEPT !.pc = "done", !.failed = TRUE]]
            /\ dom' = hideLoading(showError(dom, GeoErrorMessage(run[r].byCode, outcome)))
            /\ net' = net \ InFlight(r, "geo")
            /\ UNCHANGED << currentData, hist >>
    /\ UNCHANGED << ma, li, call >>

(***************************************************************************)
(* getDVFTransactions                                                      *)
(***************************************************************************)
\* Variants of the envelope reading that the properties below must tell
\* from the program's: one keeps the first record only, one reads the array
\* under whatever key the body has.
ParseEnvelopeFirstOnly(parser, body) ==
    IF body.valid /\ body.key = EnvelopeKey(parser) /\ body.isArray
       /\ Len(body.records) > 0
    THEN MapRecords(parser, << body.records[1] >>)
    ELSE << >>

ParseEnvelopeAnyKey(parser, body) ==
    IF body.valid /\ body.isArray THEN MapRecords(parser, body.records) ELSE << >>

\* Lines 338-358: response.json() and the parser's branch. A body that is not
\* JSON makes json() throw, which the catch of the iteration absorbs.
ParseEnvelope(parser, body) ==
    IF body.valid /\ body.key = EnvelopeKey(parser) /\ body.isArray
    THEN MapRecords(parser, body.records)
    ELSE << >>

\* A relay loop that contacts the same relay again
SameProxy(proxy) == proxy

\* The relay tried after relay proxy
NextProxy(proxy) == proxy + 1

\* One resumption of getDVFTransactions: the fetch of iteration api through
\* relay proxy ends with outcome o while the local `response` holds response.
\* next: "proxy" (the relay loop goes on), "api" (the adapter loop goes on) or
\* "return"; transactions: the value returned.
DvfStep(api, proxy, response, o) ==
    LET viaProxy == dvfApis[api].needsCors
        \* response is assigned when the fetch resolves and kept when it rejects
        resp == IF o.kind = "ok" THEN "ok"
                ELSE IF o.kind = "nonok" THEN "nonok"
                ELSE IF viaProxy THEN response
                ELSE "undefined"
        \* if (response.ok) break; otherwise the next relay, if any
        moreProxies == viaProxy /\ o.kind # "ok" /\ proxy < Len(corsProxies)
        \* if (!response || !response.ok) continue; a rejected direct fetch
        \* goes to the catch of the iteration
        usable == ~moreProxies /\ resp = "ok" /\ o.kind = "ok"
        transactions ==
            IF usable THEN ParseEnvelope(dvfApis[api].parser, o.body) ELSE << >>
    IN IF moreProxies
       THEN [next |-> "proxy", api |-> api, proxy |-> NextProxy(proxy),
             response |-> resp, transactions |-> << >>]
       ELSE IF Len(transactions) > 0
       THEN [next |-> "return", api |-> 0, proxy |-> 0,
             response |-> "undefined", transactions |-> transactions]
       ELSE IF api < Len(dvfApis)
       THEN [next |-> "api", api |-> api + 1, proxy |-> FirstProxy(api + 1),
             response |-> "undefined", transactions |-> << >>]
       ELSE [next |-> "return", api |-> 0, proxy |-> 0,
             response |-> "undefined", transactions |-> << >>]

\* The fetch awaited by getDVFTransactions ends with outcome o, and the loop
\* runs on to its next fetch or to its return. The body is read under the
\* same abort signal: a failure to read it is outcome "throw" or "timeout".
DvfSettle(r, o) ==
    LET rn == run[r]
        step == DvfStep(rn.api, rn.proxy, rn.response, o)
        kind == OutcomeKind(dvfApis[rn.api].parser, o)
        h == [hist[r] EXCEPT
                !.last = [api |-> rn.api, proxy |-> rn.proxy, kind |-> kind],
                !.prevOk["dvf"] = (o.kind = "ok"),
                !.settled = IF step.next = "proxy" THEN @ ELSE @ \cup {rn.api},
                !.yielded = IF kind = "data"
                            THEN [api |-> rn.api, records |-> o.body.records]
                            ELSE @]
    IN /\ rn.pc = "dvf"
       /\ InFlight(r, "dvf") # {}
       /\ run' = [run EXCEPT ![r].pc = IF step.next = "return" THEN "dvfDone" ELSE "dvf",
                             ![r].api = step.api,
                             ![r].proxy = step.proxy,
                             ![r].response = step.response,
                             ![r].transactions = step.transactions]
       /\ net' = (net \ InFlight(r, "dvf"))
                    \cup (IF step.next = "return" THEN {}
                          ELSE DvfFetches(r, step.api, step.proxy))
       /\ hist' = [hist EXCEPT ![r] =
                      [h EXCEPT
                          !.invoked = IF step.next = "api" THEN @ \cup {step.api} ELSE @,
                          !.relays["dvf"] =
                              IF step.next = "proxy" THEN Append(@, step.proxy)
                              ELSE IF step.next = "api" /\ step.proxy # 0 THEN << step.proxy >>
                              ELSE @]]
       /\ UNCHANGED << currentData, ma, li, dom, call >>

\* A transaction source or its relay answers, or the transport fails.
DvfResponse(r) == \E o \in DvfOutcomes : DvfSettle(r, o)

(***************************************************************************)
(* startAnalysis, after the transactions                                   *)
(***************************************************************************)
\* getMeilleursAgentsData / getLInternauteData up to their first await: the
\* fetch through the first relay. The price-estimate fetch passes
\* { timeout: 10000 }, an option fetch does not read: it carries no abort
\* signal. The demographic fetch passes AbortSignal.timeout(15000).
MaFetch(r, proxy) == Fetch(r, "ma", 0, proxy, FALSE)
LiFetch(r, proxy) == Fetch(r, "li", 0, proxy, TRUE)

\* A startAnalysis that does not await the transactions
TransactionsPending(r) == run[r].pc \in {"dvf", "dvfDone"}

\* const transactions = await getDVFTransactions(commune.code)
TransactionsAwaited(r) == run[r].pc = "dvfDone"

\* getDVFTransactions has returned: startAnalysis stores the transactions and
\* the statistics, starts the two optional fetches and awaits the 300 ms timer.
AfterDvf(r) ==
    /\ TransactionsAwaited(r)
    /\ run' = [run EXCEPT ![r].pc = "wait"]
    /\ currentData' = [currentData EXCEPT
                          !.dvfTransactions = run[r].transactions,
                          !.stats = calculateStats(run[r].transactions, run[r].commune)]
    /\ ma' = [ma EXCEPT ![r] = [state |-> "trying", proxy |-> 1, data |-> Null]]
    /\ li' = [li EXCEPT ![r] = [state |-> "trying", proxy |-> 1, data |-> Null]]
    /\ net' = net \cup {MaFetch(r, 1), LiFetch(r, 1)}
    /\ hist' = [hist EXCEPT ![r] =
                   [NoHistory EXCEPT !.overlaps = hist[r].overlaps,
                                     !.relays["ma"] = << 1 >>,
                                     !.relays["li"] = << 1 >>]]
    /\ dom' = dom
    /\ call' = call

\* The 300 ms timer fires: displayResults, then the finally block.
Timer(r) ==
    /\ run[r].pc = "wait"
    /\ run' = [run EXCEPT ![r].pc = "done"]
    /\ dom' = hideLoading(displayResults(dom, currentData))
    /\ UNCHANGED << currentData, ma, li, net, hist, call >>

(***************************************************************************)
(* getMeilleursAgentsData and its .then / .catch                           *)
(***************************************************************************)
\* if (data && (data.appartement || data.maison))
MaAccepted(data) == data.appartement # Null \/ data.maison # Null

\* One resumption of getMeilleursAgentsData: the fetch through relay proxy
\* ends with outcome o. next: "return" (with data), "proxy" or "throw".
MaStep(proxy, o) ==
    LET data == parseMeilleursAgentsHTML(o.page)
    IN IF o.kind = "ok" /\ MaAccepted(data)
       THEN [next |-> "return", proxy |-> 0, data |-> data]
       ELSE IF proxy < Len(corsProxies)
       THEN [next |-> "proxy", proxy |-> NextProxy(proxy), data |-> Null]
       ELSE [next |-> "throw", proxy |-> 0, data |-> Null]

\* .then(maData => ...): lines 247-249
MaThen(r, maData) ==
    /\ currentData' = [currentData EXCEPT !.meilleursAgents = maData]
    /\ dom' = displayMeilleursAgents(dom, maData, run[r].commune)

\* A .catch that reports the failure as startAnalysis reports its own
MaCatchShowsError(r) ==
    /\ dom' = showError(displayMeilleursAgentsError(dom, run[r].commune),
                        "Failed to fetch")
    /\ UNCHANGED currentData

\* .catch(err => ...): lines 250-253
MaCatch(r) ==
    /\ dom' = displayMeilleursAgentsError(dom, run[r].commune)
    /\ UNCHANGED currentData

\* getMeilleursAgentsData returns or throws (step.next is "return" or
\* "throw") and the callback attached by startAnalysis runs.
MaFinish(r, step) ==
    LET result == [step.data EXCEPT !.url = maUrlOf(run[r].commune)]
    IN /\ net' = net \ InFlight(r, "ma")
       /\ IF step.next = "return"
          THEN /\ ma' = [ma EXCEPT ![r] = [state |-> "resolved", proxy |-> 0,
                                          data |-> result]]
               /\ MaThen(r, result)
          ELSE /\ ma' = [ma EXCEPT ![r] = [state |-> "exhausted", proxy |-> 0,
                                          data |-> Null]]
               /\ MaCatch(r)

\* The response o was read and its page yielded a fact.
MaRead(o) == o.kind = "ok" /\ MaYieldsFact(parseMeilleursAgentsHTML(o.page))

\* The relay awaited by getMeilleursAgentsData answers with outcome o.
MaSettle(r, o) ==
    LET step == MaStep(ma[r].proxy, o)
    IN /\ ma[r].state = "trying"
       /\ InFlight(r, "ma") # {}
       /\ IF step.next = "proxy"
          THEN /\ ma' = [ma EXCEPT ![r].proxy = step.proxy]
               /\ net' = (net \ InFlight(r, "ma")) \cup {MaFetch(r, step.proxy)}
               /\ hist' = [hist EXCEPT ![r].prevOk["ma"] = (o.kind = "ok"),
                                       ![r].relays["ma"] = Append(@, step.proxy),
                                       ![r].facts["ma"] = @ \/ MaRead(o)]
               /\ UNCHANGED << currentData, dom >>
          ELSE /\ MaFinish(r, step)
               /\ hist' = [hist EXCEPT ![r].prevOk["ma"] = FALSE,
                                       ![r].facts["ma"] = @ \/ MaRead(o)]
       /\ UNCHANGED << run, li, call >>

MaResponse(r) == \E o \in MaOutcomes : MaSettle(r, o)

(***************************************************************************)
(* getLInternauteData and its .then / .catch                               *)
(***************************************************************************)
\* if (data && (data.nbLogements || data.repartitionPieces || data.typesLogements))
LiAccepted(data) ==
    \/ TruthyFact(data.nbLogements)
    \/ TruthyFact(data.repartitionPieces)
    \/ TruthyFact(data.typesLogements)

LiStep(proxy, o) ==
    LET data == parseLInternauteHTML(o.page)
    IN IF o.kind = "ok" /\ o.page.content /\ LiAccepted(data)
       THEN [next |-> "return", proxy |-> 0, data |-> data]
       ELSE IF proxy < Len(corsProxies)
       THEN [next |-> "proxy", proxy |-> NextProxy(proxy), data |-> Null]
       ELSE [next |-> "throw", proxy |-> 0, data |-> Null]

\* .then(liData => ...): lines 256-258
LiThen(r, liData) ==
    /\ currentData' = [currentData EXCEPT !.linternaute = liData]
    /\ dom' = displayLInternauteData(dom, liData)

\* .catch(err => ...): lines 259-263
LiCatch(r) ==
    /\ dom' = displayLInternauteError(dom, run[r].commune)
    /\ UNCHANGED currentData

\* getLInternauteData returns or throws and the callback attached by
\* startAnalysis runs.
LiFinish(r, step) ==
    LET result == [step.data EXCEPT !.url = liUrlOf(run[r].commune)]
    IN /\ net' = net \ InFlight(r, "li")
       /\ IF step.next = "return"
          THEN /\ li' = [li EXCEPT ![r] = [state |-> "resolved", proxy |-> 0,
                                          data |-> result]]
               /\ LiThen(r, result)
          ELSE /\ li' = [li EXCEPT ![r] = [state |-> "exhausted", proxy |-> 0,
                                          data |-> Null]]
               /\ LiCatch(r)

\* The response o was read, passed the content check and its page yielded a
\* fact.
LiRead(o) ==
    o.kind = "ok" /\ o.page.content /\ LiYieldsFact(parseLInternauteHTML(o.page))

\* The relay awaited by getLInternauteData answers with outcome o.
LiSettle(r, o) ==
    LET step == LiStep(li[r].proxy, o)
    IN /\ li[r].state = "trying"
       /\ InFlight(r, "li") # {}
       /\ IF step.next = "proxy"
          THEN /\ li' = [li EXCEPT ![r].proxy = step.proxy]
               /\ net' = (net \ InFlight(r, "li")) \cup {LiFetch(r, step.proxy)}
               /\ hist' = [hist EXCEPT ![r].prevOk["li"] = (o.kind = "ok"),
                                       ![r].relays["li"] = Append(@, step.proxy),
                                       ![r].facts["li"] = @ \/ LiRead(o)]
               /\ UNCHANGED << currentData, dom >>
          ELSE /\ LiFinish(r, step)
               /\ hist' = [hist EXCEPT ![r].prevOk["li"] = FALSE,
                                       ![r].facts["li"] = @ \/ LiRead(o)]
       /\ UNCHANGED << run, ma, call >>

LiResponse(r) == \E o \in LiOutcomes : LiSettle(r, o)

(***************************************************************************)
(* Timeouts                                                                *)
(***************************************************************************)
\* The abort signal of a fetch in flight fires: the fetch rejects.
AttemptTimeout(r, cat) ==
    /\ \E q \in InFlight(r, cat) : q.signal
    /\ IF cat = "dvf" THEN DvfSettle(r, DvfTimedOut)
       ELSE IF cat = "li" THEN LiSettle(r, LiTimedOut)
       ELSE MaSettle(r, MaTimedOut)

(***************************************************************************)
(* Specification: one analysis request, fetch by fetch                     *)
(***************************************************************************)
Next ==
    \/ \E value \in CityInputs, codeInsee \in {0} \cup Codes :
          StartAnalysis(1, trim(value), codeInsee)
    \/ \E outcome \in GeoOutcomes : GeoResponse(1, outcome)
    \/ DvfResponse(1)
    \/ AfterDvf(1)
    \/ Timer(1)
    \/ MaResponse(1)
    \/ LiResponse(1)
    \/ \E cat \in Categories : AttemptTimeout(1, cat)

Spec == Init /\ [][Next]_vars

\* The same request under fair scheduling: the continuations of startAnalysis
\* run, the 300 ms timer fires and an abort signal fires when its delay has
\* passed. A server may stay silent for ever: no fairness on the responses.
FairSpec ==
    /\ Spec
    /\ WF_vars(AfterDvf(1))
    /\ WF_vars(Timer(1))
    /\ \A cat \in Categories : WF_vars(AttemptTimeout(1, cat))

(***************************************************************************)
(* Specification: several requests in one session, retrieval by retrieval  *)
(***************************************************************************)
\* The fetches one call of getDVFTransactions can send
MaxFetches ==
    SumSeq([a \in 1..Len(dvfApis) |->
               IF dvfApis[a].needsCors THEN Len(corsProxies) ELSE 1])

\* The answers kept for the session: the transport fails, or a source answers
\* with the envelope of the first adapter around two records.
SessionDvfOutcomes ==
    {[kind |-> "throw", body |-> NoBody],
     [kind |-> "ok",
      body |-> [valid |-> TRUE, key |-> EnvelopeKey(dvfApis[1].parser),
                isArray |-> TRUE,
                records |-> << RawApartment2022, RawApartment2023 >>]]}

\* getDVFTransactions from the resumption after its k-th fetch to its return,
\* the k-th and later fetches ending as outs says.
RECURSIVE DvfRun(_, _, _, _, _)
DvfRun(api, proxy, response, outs, k) ==
    LET step == DvfStep(api, proxy, response, outs[k])
    IN IF step.next = "return" THEN step.transactions
       ELSE DvfRun(step.api, step.proxy, step.response, outs, k + 1)

RECURSIVE MaRun(_, _)
MaRun(proxy, outs) ==
    LET step == MaStep(proxy, outs[proxy])
    IN IF step.next = "proxy" THEN MaRun(step.proxy, outs) ELSE step

RECURSIVE LiRun(_, _)
LiRun(proxy, outs) ==
    LET step == LiStep(proxy, outs[proxy])
    IN IF step.next = "proxy" THEN LiRun(step.proxy, outs) ELSE step

\* What a whole call can end with, over all the ways its fetches can end
DvfResults ==
    {DvfRun(1, FirstProxy(1), "undefined", outs, 1) :
        outs \in [1..MaxFetches -> SessionDvfOutcomes]}
MaResults == {MaRun(1, outs) : outs \in [1..Len(corsProxies) -> MaOutcomes]}
LiResults ==
    {LiRun(1, outs) : outs \in [1..Len(corsProxies) -> LiOutcomes \cup {LiTimedOut}]}

\* getDVFTransactions runs from its first fetch to its return.
DvfRetrieval(r) ==
    \E transactions \in DvfResults :
        /\ run[r].pc = "dvf"
        /\ run' = [run EXCEPT ![r].pc = "dvfDone",
                              ![r].api = 0,
                              ![r].proxy = 0,
                              ![r].transactions = transactions]
        /\ net' = net \ InFlight(r, "dvf")
        /\ UNCHANGED << currentData, ma, li, dom, hist, call >>

\* getMeilleursAgentsData runs from its first fetch to its return or throw.
MaRetrieval(r) ==
    \E step \in MaResults :
        /\ ma[r].state = "trying"
        /\ MaFinish(r, step)
        /\ UNCHANGED << run, li, hist, call >>

\* getLInternauteData runs from its first fetch to its return or throw.
LiRetrieval(r) ==
    \E step \in LiResults :
        /\ li[r].state = "trying"
        /\ LiFinish(r, step)
        /\ UNCHANGED << run, ma, hist, call >>

SessionNext ==
    \/ \E r \in Runs, value \in CityInputs, codeInsee \in {0} \cup Codes :
          StartAnalysis(r, trim(value), codeInsee)
    \/ \E r \in Runs, outcome \in GeoOutcomes : GeoResponse(r, outcome)
    \/ \E r \in Runs : DvfRetrieval(r)
    \/ \E r \in Runs : AfterDvf(r)
    \/ \E r \in Runs : Timer(r)
    \/ \E r \in Runs : MaRetrieval(r)
    \/ \E r \in Runs : LiRetrieval(r)

SessionSpec == Init /\ [][SessionNext]_vars

(***************************************************************************)
(* exportToExcel, and the specification of one request with exports        *)
(***************************************************************************)
\* The row of a transaction in the sheet "Transactions DVF"
TransactionRow(t) ==
    << t.date, t.type, t.adresse, t.surface, t.prix, t.prixM2, t.pieces >>

\* What exportToExcel does with the session cd: "nothing" when there is no
\* municipality (an error is shown, no file); "fault" when stats is still
\* the initial {} (Object.entries(stats.priceStats) throws a TypeError, no
\* file); otherwise the workbook written, with its four sheets.
exportToExcel(cd) ==
    IF cd.commune = Null THEN [kind |-> "nothing"]
    ELSE IF cd.stats = NoStats THEN [kind |-> "fault"]
    ELSE [kind |-> "tables",
          sheets |-> << "Synthese", "Transactions DVF", "Evolution",
                        "Repartition surfaces" >>,
          synthese |-> [commune |-> cd.commune,
                        density |-> cd.stats.density,
                        priceStats |-> cd.stats.priceStats,
                        meilleursAgents |->
                            IF cd.meilleursAgents # Null /\ MaAccepted(cd.meilleursAgents)
                            THEN cd.meilleursAgents ELSE Null,
                        linternaute |-> cd.linternaute],
          transactions |-> [k \in 1..Len(cd.dvfTransactions) |->
                               TransactionRow(cd.dvfTransactions[k])],
          evolution |-> [k \in 1..Len(cd.stats.yearlyStats) |->
                            << cd.stats.yearlyStats[k].year,
                               cd.stats.yearlyStats[k].count,
                               cd.stats.yearlyStats[k].avgPrice >>],
          surfaces |-> [b \in 1..Len(cd.stats.housingDist) |->
                           << cd.stats.housingDist[b].label,
                              cd.stats.housingDist[b].count,
                              cd.stats.housingDist[b].percent >>]]

\* A click on the export button: the handler runs on the session as it is.
ExportToExcel ==
    /\ call' = [fn |-> "exportToExcel", arg |-> currentData,
                result |-> exportToExcel(currentData)]
    /\ dom' = IF currentData.commune = Null
              THEN showError(dom, "Aucune donnee a exporter")
              ELSE dom
    /\ UNCHANGED << currentData, run, ma, li, net, hist >>

ExportNext ==
    \/ Next
    \/ ExportToExcel

ExportSpec == Init /\ [][ExportNext]_vars

(***************************************************************************)
(* Specification: one function called on its own                           *)
(***************************************************************************)
\* A numeric field of a raw record: absent, a text that is no number, or one
\* of the numbers.
RawNumbers(numbers) == {Undefined, Txt("n/a")} \cup {Num(n) : n \in numbers}

\* Raw records with every combination of the numeric fields.
RawRecords ==
    [date_mutation : {Date(2022)},
     type_local : {Label({"Maison"})},
     adresse_nom_voie : {Txt("RUE A")},
     adresse : {Undefined},
     surface_reelle_bati : RawNumbers({0, 30, 100}),
     surface_terrain : RawNumbers({0, 30, 100}),
     valeur_fonciere : RawNumbers({0, 1, 150000, 200000}),
     nombre_pieces_principales : RawNumbers({0, 3}),
     code_postal : {Txt("75001")},
     id_mutation : {Txt("m1")}]

Parsers == {dvfApis[k].parser : k \in DOMAIN dvfApis}

\* Labels: absent, null, empty, or any set of words in any spelling.
TypeLabels ==
    {Undefined, Null, Txt("")}
        \cup {Label(ws) : ws \in SUBSET {"Maison", "APPARTEMENT", "terrain",
                                          "Dependance", "LOCAL", "commerce",
                                          "garage"}}

\* A raw sale of the given kind, date, built area, land area and value.
RawSale(label, date, bati, terrain, valeur) ==
    [date_mutation |-> date, type_local |-> label,
     adresse_nom_voie |-> Txt("RUE A"), adresse |-> Undefined,
     surface_reelle_bati |-> bati, surface_terrain |-> terrain,
     valeur_fonciere |-> valeur, nombre_pieces_principales |-> Num(3),
     code_postal |-> Txt("75001"), id_mutation |-> Txt("m1")]

\* The raw records the statistics are computed from, once normalized.
StatsRecords ==
    {RawSale(Label({"Maison"}), Date(2022), Num(100), Undefined, Num(150000)),
     RawSale(Label({"Maison"}), Date(2023), Num(30), Undefined, Num(150000)),
     RawSale(Label({"Maison"}), Date(2023), Num(100), Undefined, Num(150100)),
     RawSale(Label({"Appartement"}), Date(2022), Num(100), Undefined, Num(1)),
     RawSale(Label({"Appartement"}), Date(2023), Undefined, Num(100), Num(150000)),
     RawSale(Label({"Appartement"}), Date(2023), Num(30), Undefined, Undefined),
     RawSale(Label({"Maison"}), Undefined, Num(60), Undefined, Num(150000))}

\* The raw records the surface histogram is computed from, once normalized:
\* a surface under 30 and one at each bound of a bucket.
Surfaces == {29, 30, 60, 80, 100, 120}

SaleOfSurface(s) ==
    RawSale(Label({"Maison"}), Date(2022), Num(s), Undefined, Num(150000))

SurfaceRecords == {SaleOfSurface(s) : s \in Surfaces}

\* Pages of the demographic site for the parser: with or without a dwellings
\* count, and every combination of what the two patterns of the buckets
\* "1 piece" and "2 pieces" capture, 0 % included.
PieceCaptures == {Null, Num(0), Num(12), Num(30)}

LiParsePages ==
    {[LiPageNoFacts EXCEPT
        !.nbLogMatch = n,
        !.pieceMatches = << a, b, c, d, Null, Null, Null, Null, Null, Null >>] :
            n \in {Null, Num(1200)},
            a \in PieceCaptures, b \in PieceCaptures,
            c \in PieceCaptures, d \in PieceCaptures}

MaxLen == 3       \* transactions in one statistics call
MaxHousing == 12  \* valid transactions in one histogram call
MaxListLen == 4   \* numbers in one median call

SeqsUpTo(S, n) == UNION {[1..k -> S] : k \in 0..n}

\* The sequences of exactly n surfaces in ascending order.
RECURSIVE AscendingSurfaces(_)
AscendingSurfaces(n) ==
    IF n = 0 THEN {<< >>}
    ELSE UNION {{Append(q, s) : s \in {x \in Surfaces : n = 1 \/ q[n - 1] <= x}} :
                q \in AscendingSurfaces(n - 1)}

\* The sequences of at most n sales in ascending order of surface.
AscendingSales(n) ==
    {[k \in 1..Len(q) |-> SaleOfSurface(q[k])] :
        q \in UNION {AscendingSurfaces(m) : m \in 0..n}}

\* The raw records of one histogram call: up to anyOrder sales in any order,
\* or up to ascending sales in ascending order of surface (the histogram
\* counts, whatever the order).
HousingRecords(anyOrder, ascending) ==
    SeqsUpTo(SurfaceRecords, anyOrder) \cup AscendingSales(ascending)

\* Integer lists for median (never empty: calculateStats calls it on a
\* non-empty list only).
MedianLists == SeqsUpTo({2000, 3000, 3001, 4000, 5000}, MaxListLen) \ {<< >>}

\* Before a call: the page as loaded and one function with one argument out
\* of its set.
FunInit ==
    /\ PageLoaded
    /\ call \in
        {[fn |-> "normalizeTransaction", parser |-> p, arg |-> t,
          done |-> FALSE, result |-> Null] : p \in Parsers, t \in RawRecords}
        \cup {[fn |-> "normalizeType", arg |-> l,
               done |-> FALSE, result |-> Null] : l \in TypeLabels}
        \cup {[fn |-> "calculateStats", arg |-> MapRecords(p, raw),
               done |-> FALSE, result |-> Null] :
                  p \in Parsers, raw \in SeqsUpTo(StatsRecords, MaxLen)}
        \cup {[fn |-> "displayMainStats",
               arg |-> calculateStats(MapRecords(p, raw), Commune(1)),
               done |-> FALSE, result |-> Null] :
                  p \in Parsers, raw \in SeqsUpTo(StatsRecords, MaxLen)}
        \cup {[fn |-> "calculateHousingDistribution",
               arg |-> MapRecords("etalab", raw),
               done |-> FALSE, result |-> Null] :
                  raw \in HousingRecords(MaxLen, MaxHousing)}
        \cup {[fn |-> "parseLInternauteHTML", arg |-> pg,
               done |-> FALSE, result |-> Null] : pg \in LiParsePages}
        \cup {[fn |-> "median", arg |-> l, argAfter |-> l,
               done |-> FALSE, result |-> Null] : l \in MedianLists}

Pending(fn) == call.fn = fn /\ ~call.done

CallNormalizeTransaction ==
    /\ Pending("normalizeTransaction")
    /\ call' = [call EXCEPT !.done = TRUE,
                            !.result = MapRecords(call.parser, << call.arg >>)[1]]
    /\ UNCHANGED << currentData, run, ma, li, net, dom, hist >>

CallNormalizeType ==
    /\ Pending("normalizeType")
    /\ call' = [call EXCEPT !.done = TRUE, !.result = normalizeType(call.arg)]
    /\ UNCHANGED << currentData, run, ma, li, net, dom, hist >>

CallCalculateStats ==
    /\ Pending("calculateStats")
    /\ call' = [call EXCEPT !.done = TRUE,
                            !.result = calculateStats(call.arg, Commune(1))]
    /\ UNCHANGED << currentData, run, ma, li, net, dom, hist >>

CallDisplayMainStats ==
    /\ Pending("displayMainStats")
    /\ call' = [call EXCEPT !.done = TRUE, !.result = displayMainStats(call.arg)]
    /\ UNCHANGED << currentData, run, ma, li, net, dom, hist >>

\* calculateStats passes the valid transactions.
CallCalculateHousingDistribution ==
    /\ Pending("calculateHousingDistribution")
    /\ call' = [call EXCEPT !.done = TRUE,
                            !.result = calculateHousingDistribution(call.arg)]
    /\ UNCHANGED << currentData, run, ma, li, net, dom, hist >>

CallParseLInternauteHTML ==
    /\ Pending("parseLInternauteHTML")
    /\ call' = [call EXCEPT !.done = TRUE,
                            !.result = parseLInternauteHTML(call.arg)]
    /\ UNCHANGED << currentData, run, ma, li, net, dom, hist >>

\* median sorts a copy ([...arr]): the argument is as it was.
CallMedian ==
    /\ Pending("median")
    /\ call' = [call EXCEPT !.done = TRUE,
                            !.result = median(call.arg),
                            !.argAfter = ArrayAfterMedian(call.arg)]
    /\ UNCHANGED << currentData, run, ma, li, net, dom, hist >>

FunNext ==
    \/ CallNormalizeTransaction
    \/ CallNormalizeType
    \/ CallCalculateStats
    \/ CallDisplayMainStats
    \/ CallCalculateHousingDistribution
    \/ CallParseLInternauteHTML
    \/ CallMedian

FunSpec == FunInit /\ [][FunNext]_vars

(***************************************************************************)
(* Properties of getDVFTransactions                                        *)
(***************************************************************************)
\* C1: when an adapter's response holds at least one record, the call returns
\* at once, the value returned is exactly that adapter's mapped records, and
\* no adapter after it has been sent a fetch in that call.
C1_FirstYieldIsReturned ==
    \A r \in Runs :
        hist[r].yielded # Null =>
            /\ run[r].pc = "dvfDone"
            /\ InFlight(r, "dvf") = {}
            /\ run[r].transactions =
                   MapRecords(dvfApis[hist[r].yielded.api].parser,
                              hist[r].yielded.records)
            /\ \A j \in hist[r].invoked : j <= hist[r].yielded.api

\* The second adapter yields two records after the first gave no data.
C1_Witness ==
    /\ hist[1].yielded # Null
    /\ hist[1].yielded.api = 2
    /\ Len(hist[1].yielded.records) = 2
    /\ run[1].pc = "dvfDone"
    /\ 3 \notin hist[1].invoked

\* The outcomes the program takes for "no data"
NoDataKinds == {"throw", "timeout", "nonok", "badjson", "noarray", "empty"}

\* C2: after an attempt that ended in a thrown error, a timeout, a
\* non-success response, an invalid body, an envelope without the array or an
\* empty array, the call has not raised: it awaits the next relay of the same
\* adapter (when the relay failed and one is left), or the first fetch of the
\* next adapter, or it has returned the empty sequence after the last adapter.
C2_NoDataFallsThrough ==
    \A r \in Runs :
        LET l == hist[r].last
            relayFailed == l.proxy \in 1..(Len(corsProxies) - 1)
                           /\ l.kind \in {"throw", "timeout", "nonok"}
        IN (l # Null /\ l.kind \in NoDataKinds) =>
              /\ ~run[r].failed
              /\ ~dom.error.active
              /\ IF relayFailed
                 THEN /\ run[r].pc = "dvf"
                      /\ InFlight(r, "dvf") = {Fetch(r, "dvf", l.api, l.proxy + 1, TRUE)}
                 ELSE IF l.api < Len(dvfApis)
                 THEN /\ run[r].pc = "dvf"
                      /\ InFlight(r, "dvf") =
                            {Fetch(r, "dvf", l.api + 1, FirstProxy(l.api + 1), TRUE)}
                 ELSE /\ run[r].pc = "dvfDone"
                      /\ run[r].transactions = << >>
                      /\ InFlight(r, "dvf") = {}

\* The third relay of the relayed adapter times out, as the two before it
\* failed: the third adapter is fetched.
C2_Witness ==
    /\ hist[1].last # Null
    /\ hist[1].last.kind = "timeout"
    /\ hist[1].last.proxy = Len(corsProxies)
    /\ run[1].pc = "dvf"
    /\ run[1].api = 3

\* C3: a call has at most one fetch to a transaction source in flight, it is
\* the one of the adapter the loop stands at, and an adapter has been sent a
\* fetch only when the outcome of every adapter before it is known.
C3_OneAdapterAtATime ==
    \A r \in Runs :
        /\ Cardinality(InFlight(r, "dvf")) <= 1
        /\ \A q \in InFlight(r, "dvf") : q.api = run[r].api /\ q.api \in hist[r].invoked
        /\ \A j \in hist[r].invoked : \A i \in 1..(j - 1) : i \in hist[r].settled
        /\ \A q \in InFlight(r, "dvf") : q.api \notin hist[r].settled

\* The fetch of the third adapter is in flight, the outcomes of the first two
\* being known.
C3_Witness ==
    /\ InFlight(1, "dvf") = {Fetch(1, "dvf", 3, 0, TRUE)}
    /\ hist[1].settled = {1, 2}

(***************************************************************************)
(* Properties of the relay loops                                           *)
(***************************************************************************)
\* The relays a retrieval of category cat has contacted are the first ones of
\* corsProxies, in order and once each, and the only fetch in flight, if any,
\* goes to the last of them.
RelaysInOrder(r, cat) ==
    LET relays == hist[r].relays[cat]
    IN /\ Len(relays) <= Len(corsProxies)
       /\ \A k \in 1..Len(relays) : relays[k] = k
       /\ Cardinality(InFlight(r, cat)) <= 1
       /\ \A q \in InFlight(r, cat) :
              q.proxy # 0 => Len(relays) > 0 /\ q.proxy = relays[Len(relays)]

C5_EveryCategoryEnds ==
    /\ []<>(run[1].pc # "dvf")
    /\ []<>(ma[1].state # "trying")
    /\ []<>(li[1].state # "trying")

(***************************************************************************)
(* Properties of startAnalysis                                             *)
(***************************************************************************)
\* What displayResults shows for request r when no other request wrote the
\* session
ResultsOf(r) ==
    [commune |-> run[r].commune,
     stats |-> calculateStats(run[r].transactions, run[r].commune),
     transactions |-> run[r].transactions]

\* C6: from the return of getDVFTransactions on, startAnalysis shows no error
\* and, under fair scheduling, reaches displayResults with the statistics of
\* the request, whatever the optional fetches do: the display is reached
\* without any further answer from the network.
C6_DisplayDoesNotWait ==
    /\ [](\A r \in Runs :
             (run[r].pc \in {"dvfDone", "wait", "done"} /\ ~run[r].failed) =>
                 /\ ~dom.error.active
                 /\ run[r].pc = "done" => dom.results = ResultsOf(r))
    /\ (run[1].pc = "dvfDone") ~>
          (run[1].pc = "done" /\ ~run[1].failed /\ dom.results = ResultsOf(1))

\* The results are shown while the price-estimate fetch has not settled and
\* the demographic fetch has rejected.
C6_Witness ==
    /\ run[1].pc = "done"
    /\ ~run[1].failed
    /\ dom.results = ResultsOf(1)
    /\ Len(run[1].transactions) > 0
    /\ ma[1].state = "trying"
    /\ li[1].state = "exhausted"

\* C7 as stated: the optional fetches are begun as soon as the municipality
\* is resolved, while the transactions are still being retrieved.
C7_StartedWithTransactions ==
    \A r \in Runs :
        run[r].pc = "dvf" => ma[r].state # "idle" /\ li[r].state # "idle"

\* C7, amended: the optional fetches are begun only when getDVFTransactions
\* has returned and the statistics are stored; from then on they are pending
\* or settled, concurrently with the 300 ms wait and the display.
C7_StartedAfterTransactions ==
    \A r \in Runs :
        /\ (InFlight(r, "ma") \cup InFlight(r, "li") # {}) =>
              /\ InFlight(r, "dvf") = {}
              /\ run[r].pc \in {"wait", "done"}
              /\ currentData.stats # NoStats
        /\ run[r].pc \in {"geo", "dvf", "dvfDone"} =>
              ma[r].state = "idle" /\ li[r].state = "idle"
        /\ (run[r].pc \in {"wait", "done"} /\ ~run[r].failed) =>
              ma[r].state # "idle" /\ li[r].state # "idle"

\* Both optional fetches are in flight during the 300 ms wait, after the
\* third transaction adapter was the one to answer.
C7_Witness ==
    /\ run[1].pc = "wait"
    /\ InFlight(1, "ma") = {MaFetch(1, 1)}
    /\ InFlight(1, "li") = {LiFetch(1, 1)}
    /\ Len(run[1].transactions) > 0

\* C8: once the price-estimate fetch has settled and displayResults has run,
\* the price-estimate region shows the estimate or the "unavailable" notice
\* and is not loading.
C8_EstimateRegionSettles ==
    \A r \in Runs :
        (run[r].pc = "done" /\ ~run[r].failed
            /\ ma[r].state \in {"resolved", "exhausted"}) =>
                /\ ~dom.maLoading
                /\ dom.maContent.kind =
                      (IF ma[r].state = "resolved" THEN "prices" ELSE "unavailable")

(***************************************************************************)
(* Properties of the session                                               *)
(***************************************************************************)
\* Request r has settled its three categories.
SettledAll(r) ==
    /\ run[r].pc = "done" /\ ~run[r].failed
    /\ ma[r].state \in {"resolved", "exhausted"}
    /\ li[r].state \in {"resolved", "exhausted"}

\* No request was made after request r.
Latest(r) == IF r = MaxRuns THEN TRUE ELSE run[r + 1].pc = "idle"

\* C9: when the latest request, begun after every earlier one was over and
\* for another municipality than theirs, has settled its three categories,
\* the session holds its municipality, its transactions, its statistics,
\* and for each optional category its data if Resolved, nothing if Exhausted.
C9_SessionIsOfTheRun ==
    \A r \in Runs :
        (SettledAll(r) /\ Latest(r) /\ ~hist[r].overlaps
            /\ \A e \in 1..(r - 1) : run[e].commune # run[r].commune) =>
                /\ currentData.commune = run[r].commune
                /\ currentData.dvfTransactions = run[r].transactions
                /\ currentData.stats = ResultsOf(r).stats
                /\ currentData.meilleursAgents =
                      (IF ma[r].state = "resolved" THEN ma[r].data ELSE Null)
                /\ currentData.linternaute =
                      (IF li[r].state = "resolved" THEN li[r].data ELSE Null)

\* C10: when a request begun while an earlier one was unsettled is the
\* latest, and it and the earlier ones are over, the session holds its
\* municipality, its transactions and its statistics, and the data of each
\* optional category it Resolved.
C10_SessionIsOfNewerRequest ==
    \A r \in Runs :
        (SettledAll(r) /\ Latest(r) /\ hist[r].overlaps
            /\ \A e \in 1..(r - 1) : Settled(e)) =>
                /\ currentData.commune = run[r].commune
                /\ currentData.dvfTransactions = run[r].transactions
                /\ currentData.stats = ResultsOf(r).stats
                /\ ma[r].state = "resolved" => currentData.meilleursAgents = ma[r].data
                /\ li[r].state = "resolved" => currentData.linternaute = li[r].data

(***************************************************************************)
(* Properties of the municipality resolution                               *)
(***************************************************************************)
\* C11: whenever the resolution fails, by name or by code, on an empty
\* result, a non-success response or a transport failure, the error shown is
\* the same "not found" message.
C11_SameNotFound ==
    \A r \in Runs :
        run[r].failed =>
            dom.error.active /\ dom.error.text = GeoErrorMessage(FALSE, "empty")

\* A request whose resolution has failed has invoked nothing else.
NothingInvoked(r) ==
    /\ \A q \in net : q.run # r
    /\ ma[r].state = "idle" /\ li[r].state = "idle"
    /\ hist[r].invoked = {}
    /\ run[r].transactions = << >>

\* C12: the step in which the resolution of a request fails shows an error
\* and leaves the session as it is; so does the step that began the request,
\* and the request invokes no transaction adapter and no optional fetch, then
\* or later.
C12_FailedResolutionLeavesSession ==
    /\ [](\A r \in Runs : run[r].failed => NothingInvoked(r))
    /\ [][\A r \in Runs :
            /\ (run[r].pc = "geo" /\ run'[r].failed) =>
                  /\ currentData' = currentData
                  /\ dom'.error.active
                  /\ run'[r].pc = "done"
            /\ (run[r].pc = "idle" /\ run'[r].pc = "geo") =>
                  currentData' = currentData]_vars

\* The second request fails to resolve while the session holds the data of
\* the first, which stay.
C12_Witness ==
    /\ run[2].failed
    /\ dom.error.active
    /\ SettledAll(1)
    /\ currentData.commune = run[1].commune
    /\ currentData.stats = ResultsOf(1).stats
    /\ Len(currentData.dvfTransactions) > 0

(***************************************************************************)
(* Properties of the statistics                                            *)
(***************************************************************************)
\* C13: when getDVFTransactions has returned the empty sequence, the
\* statistics stored have no category, no year and six surface buckets of
\* count 0 and percent 0; no error is shown, and the results displayed are
\* those.
C13_EmptyTransactionsGiveEmptyStats ==
    \A r \in Runs :
        (run[r].pc \in {"wait", "done"} /\ ~run[r].failed
            /\ run[r].transactions = << >>) =>
              /\ hist[r].yielded = Null
              /\ currentData.dvfTransactions = << >>
              /\ currentData.stats.totalTransactions = 0
              /\ DOMAIN currentData.stats.priceStats = {}
              /\ currentData.stats.yearlyStats = << >>
              /\ DOMAIN currentData.stats.housingDist = 1..6
              /\ \A b \in 1..6 :
                    /\ currentData.stats.housingDist[b].count = 0
                    /\ currentData.stats.housingDist[b].percent = 0
              /\ ~dom.error.active
              /\ run[r].pc = "done" => dom.results.stats = currentData.stats

\* The three adapters gave no record and the results are displayed.
C13_Witness ==
    /\ run[1].pc = "done"
    /\ ~run[1].failed
    /\ run[1].transactions = << >>
    /\ dom.results # Null
    /\ dom.results.transactions = << >>
    /\ ~dom.error.active

(***************************************************************************)
(* Properties of the Transaction Normalizer                                *)
(***************************************************************************)
Normalized == call.fn = "normalizeTransaction" /\ call.done

\* C14: in every normalized record, whichever the mapping, prixM2 is prix
\* over surface rounded when surface is positive, and 0 otherwise, prix and
\* surface being those of the same record.
C14_PricePerAreaOfStoredFields ==
    Normalized =>
        call.result.prixM2 =
            IF call.result.surface > 0
            THEN MathRoundDiv(call.result.prix, call.result.surface)
            ELSE 0

\* C15: in every normalized record, surface, prix, prixM2 and pieces are
\* numbers, none of them NaN.
C15_NoNaNStored ==
    Normalized =>
        /\ call.result.surface # NaN
        /\ call.result.prix # NaN
        /\ call.result.prixM2 # NaN
        /\ call.result.pieces # NaN

\* The label holds the word in some spelling.
HasWord(label, word) == label.terms \cap Spellings[word] # {}

\* C16: normalizeType gives the category of the first rule that matches, the
\* rules taken in the order house, apartment, land or outbuilding, premises
\* or retail, whatever the case of the letters; a label that is absent or
\* empty, or matches no rule, gives Other.
C16_FirstMatchingRuleAnyCase ==
    (call.fn = "normalizeType" /\ call.done) =>
        call.result =
            IF ~IsLabel(call.arg) THEN "Autre"
            ELSE IF HasWord(call.arg, "maison") THEN "Maison"
            ELSE IF HasWord(call.arg, "appartement") THEN "Appartement"
            ELSE IF HasWord(call.arg, "terrain") \/ HasWord(call.arg, "dependance")
                 THEN "Terrain"
            ELSE IF HasWord(call.arg, "local") \/ HasWord(call.arg, "commerce")
                 THEN "Commerce"
            ELSE "Autre"

\* A label matching two rules, in capitals, got the category of the earlier.
C16_Witness ==
    /\ call.fn = "normalizeType" /\ call.done
    /\ IsLabel(call.arg)
    /\ call.arg.terms = {"APPARTEMENT", "LOCAL"}
    /\ call.result = "Appartement"

(***************************************************************************)
(* Properties of the per-category price statistics                         *)
(***************************************************************************)
StatsDone == call.fn = "calculateStats" /\ call.done

\* The valid transactions of a category among those passed, and their prices
\* per square metre.
ValidOf(ty) ==
    SelectSeq(call.arg, LAMBDA t : t.prix > 0 /\ t.surface > 0 /\ t.type = ty)

ValuesOf(ty) == [k \in 1..Len(ValidOf(ty)) |-> ValidOf(ty)[k].prixM2]

\* C17: for each category of priceStats, count, min, max, avg and median are
\* those of one collection, the prixM2 of all the valid transactions of the
\* category; count is the number of values min, max, avg and median are of.
C17_OneCollection ==
    StatsDone =>
        \A ty \in DOMAIN call.result.priceStats :
            LET st == call.result.priceStats[ty]
                values == ValuesOf(ty)
            IN /\ st.count = Len(values)
               /\ st.min = MathMin(values)
               /\ st.max = MathMax(values)
               /\ st.avg = MathRoundDiv(SumSeq(values), Len(values))
               /\ st.median = median(values)

\* C18: the categories of priceStats are exactly those with at least one
\* valid transaction.
C18_KeyIffValidTransaction ==
    StatsDone =>
        \A ty \in {"Maison", "Appartement", "Terrain", "Commerce", "Autre"} :
            ty \in DOMAIN call.result.priceStats <=> Len(ValidOf(ty)) > 0

\* C19: in every category of priceStats, min <= median <= max and
\* min <= avg <= max, rounded as they are.
C19_BetweenMinAndMax ==
    StatsDone =>
        \A ty \in DOMAIN call.result.priceStats :
            LET st == call.result.priceStats[ty]
            IN /\ st.min <= st.median /\ st.median <= st.max
               /\ st.min <= st.avg /\ st.avg <= st.max

\* Two prices one apart: their mean, and their median, is rounded up to the
\* larger.
C19_Witness ==
    /\ StatsDone
    /\ "Maison" \in DOMAIN call.result.priceStats
    /\ call.result.priceStats["Maison"].count = 2
    /\ call.result.priceStats["Maison"].max = call.result.priceStats["Maison"].min + 1
    /\ call.result.priceStats["Maison"].avg = call.result.priceStats["Maison"].max
    /\ call.result.priceStats["Maison"].median = call.result.priceStats["Maison"].max

(***************************************************************************)
(* Properties of median                                                    *)
(***************************************************************************)
MedianDone == call.fn = "median" /\ call.done

\* How many elements of the list are below, and above, a value.
Below(v) == Cardinality({j \in 1..Len(call.arg) : call.arg[j] < v})
Above(v) == Cardinality({j \in 1..Len(call.arg) : call.arg[j] > v})

\* The element at the middle position of the list in ascending order, for a
\* list of odd length.
IsMiddle(v) ==
    /\ v \in SeqRange(call.arg)
    /\ Below(v) <= Len(call.arg) \div 2
    /\ Above(v) <= Len(call.arg) \div 2

\* The two elements at the middle positions of the list in ascending order,
\* for a list of even length.
AreMiddles(a, b) ==
    /\ a \in SeqRange(call.arg) /\ b \in SeqRange(call.arg)
    /\ Below(a) <= Len(call.arg) \div 2 - 1 /\ Above(a) <= Len(call.arg) \div 2
    /\ Below(b) <= Len(call.arg) \div 2 /\ Above(b) <= Len(call.arg) \div 2 - 1

ValidPassed == SelectSeq(call.arg, LAMBDA t : t.prix > 0 /\ t.surface > 0)
ValidOfYear(y) ==
    SelectSeq(ValidPassed, LAMBDA t : DOMAIN t.date = {"year"} /\ t.date.year = y)

\* The calendar years of the valid transactions.
CalendarYears ==
    {ValidPassed[k].date.year :
        k \in {j \in 1..Len(ValidPassed) : DOMAIN ValidPassed[j].date = {"year"}}}

\* C21: yearlyStats has exactly one entry per calendar year of the valid
\* transactions, the years strictly ascending; the count of an entry is the
\* number of valid transactions of its year, the counts sum to the number of
\* valid transactions, and avgPrice is the rounded mean of their prixM2.
C21_OneEntryPerCalendarYear ==
    StatsDone =>
        LET ys == call.result.yearlyStats
        IN /\ Len(ys) = Cardinality(CalendarYears)
           /\ {ys[k].year : k \in 1..Len(ys)} = CalendarYears
           /\ \A k \in 1..(Len(ys) - 1) : ys[k].year < ys[k + 1].year
           /\ \A k \in 1..Len(ys) :
                 LET trans == ValidOfYear(ys[k].year)
                 IN /\ ys[k].count = Len(trans)
                    /\ ys[k].avgPrice =
                          MathRoundDiv(SumSeq([j \in 1..Len(trans) |-> trans[j].prixM2]),
                                       Len(trans))
           /\ SumSeq([k \in 1..Len(ys) |-> ys[k].count]) = Len(ValidPassed)

\* The same, for transactions that all have a date.
C21_WhenAllDated ==
    (StatsDone /\ \A k \in 1..Len(call.arg) : DOMAIN call.arg[k].date = {"year"})
        => C21_OneEntryPerCalendarYear

(***************************************************************************)
(* Properties of the surface histogram                                     *)
(***************************************************************************)
HousingDone == call.fn = "calculateHousingDistribution" /\ call.done

PercentSum == SumSeq([b \in 1..6 |-> call.result[b].percent])

\* C22 as stated: with at least one valid transaction the six percentages
\* sum to 99, 100 or 101; with none they are all 0.
C22_PercentsSumWithinOne ==
    HousingDone =>
        IF Len(call.arg) > 0 THEN PercentSum \in 99..101
        ELSE \A b \in 1..6 : call.result[b].percent = 0

\* C22, amended: each percentage is round(count / total * 100) on its own;
\* with at least one valid transaction the six sum to a number from 98 to
\* 103; with none they are all 0.
C22_PercentsSumWithinRounding ==
    HousingDone =>
        /\ \A b \in 1..6 :
              call.result[b].percent =
                  MathRoundDiv(call.result[b].count * 100,
                               IF Len(call.arg) = 0 THEN 1 ELSE Len(call.arg))
        /\ IF Len(call.arg) > 0 THEN PercentSum \in 98..103
           ELSE \A b \in 1..6 : call.result[b].percent = 0

\* Six transactions, one in each bucket: each percentage is 17, the sum 102.
C22_Witness ==
    /\ HousingDone
    /\ Len(call.arg) = 6
    /\ \A b \in 1..6 : call.result[b].count = 1 /\ call.result[b].percent = 17
    /\ PercentSum = 102

\* The bounds of the six buckets: bucket b holds the surfaces from
\* BucketFrom[b] up to, and not including, BucketFrom[b + 1].
BucketFrom == << 0, 30, 60, 80, 100, 120 >>

InBucket(surface, b) ==
    /\ surface >= BucketFrom[b]
    /\ b < 6 => surface < BucketFrom[b + 1]

\* C29: the histogram has the six buckets in the fixed order; every
\* transaction is counted in exactly one bucket, a surface equal to a bound
\* in the bucket that starts there; the six counts sum to the number of
\* transactions.
C29_SixBucketsPartition ==
    HousingDone =>
        /\ DOMAIN call.result = 1..6
        /\ \A b \in 1..6 :
              /\ call.result[b].label = SurfaceLabels[b]
              /\ call.result[b].count =
                    Cardinality({k \in 1..Len(call.arg) :
                                    InBucket(call.arg[k].surface, b)})
        /\ \A k \in 1..Len(call.arg) :
              Cardinality({b \in 1..6 : InBucket(call.arg[k].surface, b)}) = 1
        /\ SumSeq([b \in 1..6 |-> call.result[b].count]) = Len(call.arg)

\* Surfaces of 120, 30 and 30, in that order: two in the bucket from 30, one
\* in the last, none in the first.
C29_Witness ==
    /\ HousingDone
    /\ Len(call.arg) = 3
    /\ call.arg[1].surface = 120
    /\ call.arg[2].surface = 30 /\ call.arg[3].surface = 30
    /\ call.result[1].count = 0
    /\ call.result[2].count = 2
    /\ call.result[6].count = 1

(***************************************************************************)
(* Properties of the price evolution                                       *)
(***************************************************************************)
\* The entries of yearlyStats that are of a calendar year, and among them
\* those of the smallest and of the largest year.
YearEntries ==
    {call.arg.yearlyStats[k] :
        k \in {j \in 1..Len(call.arg.yearlyStats) :
                  call.arg.yearlyStats[j].year # NaN}}

FirstYearEntry == CHOOSE e \in YearEntries : \A o \in YearEntries : e.year <= o.year
LastYearEntry == CHOOSE e \in YearEntries : \A o \in YearEntries : e.year >= o.year

\* C23: the evolution displayed is absent when yearlyStats has fewer than 2
\* entries or the average of the first year is 0; otherwise it is
\* round((last.avgPrice - first.avgPrice) / first.avgPrice * 100), first and
\* last being the entries of the smallest and of the largest year.
C23_EvolutionFirstToLastYear ==
    (call.fn = "displayMainStats" /\ call.done) =>
        IF Len(call.arg.yearlyStats) < 2 THEN call.result.evolution = Null
        ELSE /\ YearEntries # {}
             /\ IF FirstYearEntry.avgPrice = 0 THEN call.result.evolution = Null
                ELSE call.result.evolution =
                        [percent |->
                            MathRoundDiv((LastYearEntry.avgPrice
                                            - FirstYearEntry.avgPrice) * 100,
                                         FirstYearEntry.avgPrice)]

\* The same, for statistics all of whose yearly entries are calendar years.
C23_WhenAllDated ==
    (call.fn = "displayMainStats" /\ call.done
        /\ Cardinality(YearEntries) = Len(call.arg.yearlyStats))
            => C23_EvolutionFirstToLastYear

(***************************************************************************)
(* Properties of the Text-Pattern Extractor                                *)
(***************************************************************************)
\* The patterns of bucket k that match the page parsed, in list order.
MatchingPatterns(k) ==
    {i \in {2 * k - 1, 2 * k} : call.arg.pieceMatches[i] # Null}

\* C26: for each room-count bucket, the value stored is the capture of the
\* first pattern of the bucket, in list order, that matches; a later pattern
\* does not replace it, whatever it is, 0 included; a bucket none of whose
\* patterns matches is absent.
C26_FirstMatchingPatternStays ==
    (call.fn = "parseLInternauteHTML" /\ call.done) =>
        LET pieces == call.result.repartitionPieces.pieces
        IN \A k \in 1..5 :
              IF MatchingPatterns(k) = {} THEN k \notin DOMAIN pieces
              ELSE /\ k \in DOMAIN pieces
                   /\ \E i \in MatchingPatterns(k) :
                         /\ \A j \in MatchingPatterns(k) : i <= j
                         /\ pieces[k] = call.arg.pieceMatches[i].num

(***************************************************************************)
(* Properties of the optional categories                                   *)
(***************************************************************************)
\* C24: the price-estimate category ends Resolved if and only if a page
\* fetched through some relay yielded a fact (a price for apartments, a price
\* for houses or a rent); it ends Exhausted only when no relay yielded one.
C24_EstimateResolvedIffFact ==
    \A r \in Runs :
        /\ ma[r].state = "resolved" => hist[r].facts["ma"]
        /\ ma[r].state = "exhausted" => ~hist[r].facts["ma"]

\* C25: the demographic category ends Resolved only if a page fetched
\* through some relay yielded a fact; a profile stored in the session holds
\* one, and its room-count distribution is absent when no bucket was found.
C25_ProfileResolvedOnlyWithFact ==
    \A r \in Runs :
        /\ li[r].state = "resolved" =>
              /\ hist[r].facts["li"]
              /\ LiYieldsFact(li[r].data)
        /\ (currentData.linternaute # Null) =>
              /\ LiYieldsFact(currentData.linternaute)
              /\ DOMAIN currentData.linternaute.repartitionPieces.pieces # {}
                    \/ currentData.linternaute.repartitionPieces = Null

(***************************************************************************)
(* Properties of the export                                                *)
(***************************************************************************)
\* C27: an export either reports that there is nothing to export and writes
\* nothing, when the session has no municipality, or writes exactly four
\* tables, with one row per transaction of the session, in order, one per
\* yearly entry and one per surface bucket; it raises no fault, whether or
\* not a request is in flight.
C27_ExportNeverFaults ==
    call.fn = "exportToExcel" =>
        IF call.arg.commune = Null THEN call.result.kind = "nothing"
        ELSE /\ call.result.kind = "tables"
             /\ Len(call.result.sheets) = 4
             /\ Len(call.result.transactions) = Len(call.arg.dvfTransactions)
             /\ \A k \in 1..Len(call.arg.dvfTransactions) :
                   call.result.transactions[k][6] = call.arg.dvfTransactions[k].prixM2
             /\ Len(call.result.evolution) = Len(call.arg.stats.yearlyStats)
             /\ Len(call.result.surfaces) = 6

\* The same, for exports asked when no request is between the resolution of
\* its municipality and its statistics.
C27_WhenStatsStored ==
    (call.fn = "exportToExcel" /\ call.arg.stats # NoStats) => C27_ExportNeverFaults

(***************************************************************************)
(* Properties of the input check                                           *)
(***************************************************************************)
EmptyInputMessage == "Veuillez entrer le nom d'une commune"

\* C28: a startAnalysis without a code and with a text that is empty once
\* trimmed starts no request (every request started is for a code or a
\* name), and the step in which its error message appears sends nothing and
\* leaves the session and every request as they are.
C28_EmptyInputStartsNothing ==
    /\ [][\A r \in Runs :
            (run[r].pc = "idle" /\ run'[r].pc # "idle") => run'[r].target # 0]_vars
    /\ [][(/\ dom'.error.active /\ dom'.error.text = EmptyInputMessage
           /\ ~(dom.error.active /\ dom.error.text = EmptyInputMessage))
              => /\ currentData' = currentData
                 /\ net' = net
                 /\ run' = run /\ ma' = ma /\ li' = li
                 /\ dom' = [dom EXCEPT !.error = dom'.error]]_vars

\* After a first request that stored its data, a second startAnalysis with
\* an empty input: the message is shown, nothing is in flight and the
\* session holds the data of the first.
C28_Witness ==
    /\ dom.error.active /\ dom.error.text = EmptyInputMessage
    /\ SettledAll(1)
    /\ ~run[1].failed
    /\ run[2].pc = "idle"
    /\ net = {}
    /\ currentData.commune = run[1].commune
    /\ currentData.stats = ResultsOf(1).stats

(***************************************************************************)
(* Properties of the late demographic update                               *)
(***************************************************************************)
\* C30: once the display pass has run and the demographic fetch has
\* settled, in either order, the housing region shows the room-count
\* distribution of the profile when it has one, and the demographics region
\* has the manual link when the fetch is exhausted.
C30_DemographicUpdateStays ==
    \A r \in Runs :
        (run[r].pc = "done" /\ ~run[r].failed) =>
            /\ (li[r].state = "resolved"
                  /\ DOMAIN li[r].data.repartitionPieces.pieces # {})
                  => /\ dom.housing.src = "insee"
                     /\ dom.housing.bars =
                           HousingBars(PieceEntries(li[r].data.repartitionPieces.pieces))
            /\ li[r].state = "exhausted" => dom.demoLinks >= 1

\* The same, for a demographic fetch that settles after the display pass.
C30_WhenSettledAfterDisplay ==
    [][\A r \in Runs :
          (run[r].pc = "done" /\ ~run[r].failed /\ li[r].state = "trying"
              /\ li'[r].state \in {"resolved", "exhausted"})
                => /\ (li'[r].state = "resolved"
                        /\ DOMAIN li'[r].data.repartitionPieces.pieces # {})
                        => dom'.housing.src = "insee"
                   /\ li'[r].state = "exhausted" => dom'.demoLinks >= 1]_vars

====
